---- MODULE Spec2Model ----
(***************************************************************************)
(* RC5 (generic word width) as implemented in src/src/lib.rs: the key      *)
(* schedule gen_key_table, the block transforms encode_block/decode_block, *)
(* the byte driver compute and the public encode/decode.                   *)
(*                                                                         *)
(* A word of the type parameter W is a tuple of W/16 limbs, least          *)
(* significant limb first, each limb in 0..65535 (TLC's integers are 32    *)
(* bits wide, a u32 or u64 does not fit in one).  Byte strings and vectors *)
(* are sequences; the code's index i is position i+1 here.                 *)
(***************************************************************************)
EXTENDS Integers, Sequences, FiniteSets, TLC

VARIABLES
    W,        \* the type parameter W, given by its width in bits
    pc,       \* the caller's position
    ukey,     \* the caller's key bytes
    ukey2,    \* a second, related key (relational properties)
    urounds,  \* the caller's rounds argument to gen_key_table
    ks,       \* gen_key_table's locals s, l, a, b, i, j while it runs
    ks2,      \* the same locals of the call on the second key, as the mixing loop starts
    n,        \* iterations of the mixing loop done so far
    upd,      \* how often each slot of s and of l was written by the mixing loop
    msg,      \* the caller's input bytes
    blk,      \* the caller's input word pair
    tbl,      \* the caller's key table
    res,      \* result of the first call
    res2      \* result of the second call

vars == <<W, pc, ukey, ukey2, urounds, ks, ks2, n, upd, msg, blk, tbl, res, res2>>

Max(x, y) == IF x >= y THEN x ELSE y

(***************************************************************************)
(* How a call ends: it returns its value, or a failed assert! or slice     *)
(* index check panics with a message and returns nothing.                  *)
(***************************************************************************)
returned(v) == [kind |-> "ok", message |-> "", value |-> v]
panicked(m) == [kind |-> "panic", message |-> m, value |-> <<>>]

(***************************************************************************)
(* Words                                                                   *)
(***************************************************************************)
w == W
NLimbs == w \div 16

\* limb k of x, 0 beyond the width
limb(x, k) == IF k <= Len(x) THEN x[k] ELSE 0

\* the word of the limbs l1 (least significant) .. l4, cut to the width
word_of(l1, l2, l3, l4) == SubSeq(<<l1, l2, l3, l4>>, 1, NLimbs)

\* W::zero()
zero == word_of(0, 0, 0, 0)

\* W::from(v) for a small unsigned v (a u8, or the usize w)
from_small(v) == word_of(v, 0, 0, 0)

\* WrappingAdd::wrapping_add: addition modulo 2^w, the carry out of the top limb is dropped
wrapping_add(x, y) ==
    LET s1 == limb(x, 1) + limb(y, 1)
        s2 == limb(x, 2) + limb(y, 2) + s1 \div 65536
        s3 == limb(x, 3) + limb(y, 3) + s2 \div 65536
        s4 == limb(x, 4) + limb(y, 4) + s3 \div 65536
    IN  word_of(s1 % 65536, s2 % 65536, s3 % 65536, s4 % 65536)

\* WrappingSub::wrapping_sub: subtraction modulo 2^w, the borrow out of the top limb is dropped
wrapping_sub(x, y) ==
    LET d1 == limb(x, 1) - limb(y, 1)
        d2 == limb(x, 2) - limb(y, 2) - (IF d1 < 0 THEN 1 ELSE 0)
        d3 == limb(x, 3) - limb(y, 3) - (IF d2 < 0 THEN 1 ELSE 0)
        d4 == limb(x, 4) - limb(y, 4) - (IF d3 < 0 THEN 1 ELSE 0)
    IN  word_of((d1 + 65536) % 65536, (d2 + 65536) % 65536,
                (d3 + 65536) % 65536, (d4 + 65536) % 65536)

\* exclusive or of two 4-bit values, bit by bit
xor_nibble(x, y) ==
      ((x + y) % 2)
    + 2 * (((x \div 2) + (y \div 2)) % 2)
    + 4 * (((x \div 4) + (y \div 4)) % 2)
    + 8 * (((x \div 8) + (y \div 8)) % 2)

\* exclusive or of two limbs, nibble by nibble
xor_limb(x, y) ==
      xor_nibble(x % 16, y % 16)
    + 16 * xor_nibble((x \div 16) % 16, (y \div 16) % 16)
    + 256 * xor_nibble((x \div 256) % 16, (y \div 256) % 16)
    + 4096 * xor_nibble(x \div 4096, y \div 4096)

\* the ^ operator of W
bitxor(x, y) ==
    word_of(xor_limb(limb(x, 1), limb(y, 1)), xor_limb(limb(x, 2), limb(y, 2)),
            xor_limb(limb(x, 3), limb(y, 3)), xor_limb(limb(x, 4), limb(y, 4)))

\* (x % W::from(m)).to_u32() for a small modulus m: the limbs from the top down
rem(x, m) ==
    ((((((limb(x, 4) % m) * 65536 + limb(x, 3)) % m) * 65536 + limb(x, 2)) % m) * 65536
        + limb(x, 1)) % m

\* limb k (from 1) of x rotated left by lsh whole limbs and bsh < 16 bits
rotl_limb(x, lsh, bsh, k) ==
    LET nl == Len(x)
        lo == x[((k - 1 - lsh + nl) % nl) + 1]
        hi == x[((k - 2 - lsh + 2 * nl) % nl) + 1]
    IN  (lo % (2 ^ (16 - bsh))) * (2 ^ bsh) + hi \div (2 ^ (16 - bsh))

\* rotate_left(amount): the bits move up, those leaving the top re-enter at the bottom;
\* the amount is taken modulo the width
rotate_left(x, amount) ==
    LET sh == amount % w
        lsh == sh \div 16
        bsh == sh % 16
    IN  word_of(rotl_limb(x, lsh, bsh, 1), rotl_limb(x, lsh, bsh, 2),
                rotl_limb(x, lsh, bsh, 3), rotl_limb(x, lsh, bsh, 4))

\* limb k (from 1) of x rotated right by lsh whole limbs and bsh < 16 bits
rotr_limb(x, lsh, bsh, k) ==
    LET nl == Len(x)
        lo == x[((k - 1 + lsh) % nl) + 1]
        hi == x[((k + lsh) % nl) + 1]
    IN  lo \div (2 ^ bsh) + (hi % (2 ^ bsh)) * (2 ^ (16 - bsh))

\* rotate_right(amount)
rotate_right(x, amount) ==
    LET sh == amount % w
        lsh == sh \div 16
        bsh == sh % 16
    IN  word_of(rotr_limb(x, lsh, bsh, 1), rotr_limb(x, lsh, bsh, 2),
                rotr_limb(x, lsh, bsh, 3), rotr_limb(x, lsh, bsh, 4))

\* limb k (from 1) of x shifted left by lsh whole limbs and bsh < 16 bits
shl_limb(x, lsh, bsh, k) ==
    LET lo == IF k - lsh >= 1 THEN limb(x, k - lsh) ELSE 0
        hi == IF k - lsh - 1 >= 1 THEN limb(x, k - lsh - 1) ELSE 0
    IN  (lo % (2 ^ (16 - bsh))) * (2 ^ bsh) + hi \div (2 ^ (16 - bsh))

\* unsigned_shl(amount), amount < w: the bits leaving the top are lost
unsigned_shl(x, amount) ==
    LET lsh == amount \div 16
        bsh == amount % 16
    IN  word_of(shl_limb(x, lsh, bsh, 1), shl_limb(x, lsh, bsh, 2),
                shl_limb(x, lsh, bsh, 3), shl_limb(x, lsh, bsh, 4))

(***************************************************************************)
(* MagicConstants                                                          *)
(***************************************************************************)
\* 0xb7e1, 0xb7e15163, 0xb7e151628aed2a6b
p == CASE w = 16 -> <<47073>>
       [] w = 32 -> <<20835, 47073>>
       [] w = 64 -> <<10859, 35565, 20834, 47073>>

\* 0x9e37, 0x9e3779b9, 0x9e3779b97f4a7c15
q == CASE w = 16 -> <<40503>>
       [] w = 32 -> <<31161, 40503>>
       [] w = 64 -> <<31765, 32586, 31161, 40503>>

(***************************************************************************)
(* Little-endian byte codec                                                *)
(***************************************************************************)
\* byte k (from 1) of a byte string, 0 beyond its end
byte_at(bytes, k) == IF k <= Len(bytes) THEN bytes[k] ELSE 0

\* W::from_le_bytes: byte m (from 0) carries weight 256^m
from_le_bytes(bytes) ==
    word_of(byte_at(bytes, 1) + 256 * byte_at(bytes, 2),
            byte_at(bytes, 3) + 256 * byte_at(bytes, 4),
            byte_at(bytes, 5) + 256 * byte_at(bytes, 6),
            byte_at(bytes, 7) + 256 * byte_at(bytes, 8))

\* the most significant byte first
to_be_bytes(num) ==
    SubSeq(<<limb(num, 4) \div 256, limb(num, 4) % 256, limb(num, 3) \div 256, limb(num, 3) % 256,
             limb(num, 2) \div 256, limb(num, 2) % 256, limb(num, 1) \div 256, limb(num, 1) % 256>>,
           9 - w \div 8, 8)

\* W::to_le_bytes: the least significant byte first
to_le_bytes(num) ==
    SubSeq(<<limb(num, 1) % 256, limb(num, 1) \div 256, limb(num, 2) % 256, limb(num, 2) \div 256,
             limb(num, 3) % 256, limb(num, 3) \div 256, limb(num, 4) % 256, limb(num, 4) \div 256>>,
           1, w \div 8)

(***************************************************************************)
(* gen_key_table                                                           *)
(***************************************************************************)
\* let t = 2 * rounds as usize + 2
t(rounds) == 2 * rounds + 2

\* let u = w / 8
u == w \div 8

\* Integer::div_ceil on unsigned operands
div_ceil(x, y) == (x + y - 1) \div y

\* let c = 1.max(div_ceil(key.len() * 8, w))
c(key) == Max(1, div_ceil(Len(key) * 8, w))

\* assert!(key.len() <= 255, "key should be 0 to 255 bytes long")
\* the bound off by one: a 256-byte key passes
key_len_ok_off_by_one(key) == Len(key) <= 256

key_len_ok(key) == Len(key) <= 255

RECURSIVE vec_of(_, _)
\* vec![x; len]
vec_of(x, len) ==
    IF len = 0 THEN <<>>
    ELSE IF len = 1 THEN <<x>>
    ELSE vec_of(x, len \div 2) \o vec_of(x, len - len \div 2)

\* the slice index checks of l[i / u] in the packing loop: each i / u must be < l.len()
pack_in_bounds(key, len) == \A i \in 0 .. Len(key) - 1 : i \div u < len

\* l[i / u] = (l[i / u] << 8).wrapping_add(W::from(key[i]))
\* the byte added without shifting the slot first
pack_byte_no_shift(key, l, i) ==
    [l EXCEPT ![i \div u + 1] = wrapping_add(l[i \div u + 1], from_small(key[i + 1]))]

pack_byte(key, l, i) ==
    [l EXCEPT ![i \div u + 1] = wrapping_add(unsigned_shl(l[i \div u + 1], 8), from_small(key[i + 1]))]

\* the loop stops one byte short: the last key byte is never packed
RECURSIVE pack_key_skip_last(_, _, _, _)
pack_key_skip_last(key, l, lo, hi) ==
    IF hi <= lo \/ Len(l) = 0 THEN l
    ELSE IF hi = lo + 1 THEN (IF lo = Len(key) - 1 THEN l ELSE pack_byte(key, l, lo))
    ELSE LET mid == (lo + hi) \div 2
         IN  pack_key_skip_last(key, pack_key_skip_last(key, l, mid, hi), lo, mid)

\* the loop without .rev(): the bytes taken from the first to the last
RECURSIVE pack_key_forward(_, _, _, _)
pack_key_forward(key, l, lo, hi) ==
    IF hi <= lo \/ Len(l) = 0 THEN l
    ELSE IF hi = lo + 1 THEN pack_byte(key, l, lo)
    ELSE LET mid == (lo + hi) \div 2
         IN  pack_key_forward(key, pack_key_forward(key, l, lo, mid), mid, hi)

RECURSIVE pack_key(_, _, _, _)
\* for i in (lo..hi).rev() { pack_byte }: the upper half of the range runs first
\* (the test on Len makes TLC evaluate that half before it starts on the lower one)
pack_key(key, l, lo, hi) ==
    IF hi <= lo \/ Len(l) = 0 THEN l
    ELSE IF hi = lo + 1 THEN pack_byte(key, l, lo)
    ELSE LET mid == (lo + hi) \div 2
         IN  pack_key(key, pack_key(key, l, mid, hi), lo, mid)

RECURSIVE fill_s(_, _, _)
\* for i in lo..hi { s[i] = s[i - 1].wrapping_add(Q) }: the lower half of the range runs first
fill_s(s, lo, hi) ==
    IF hi <= lo \/ Len(s) = 0 THEN s
    ELSE IF hi = lo + 1 THEN [s EXCEPT ![lo + 1] = wrapping_add(s[lo], q)]
    ELSE LET mid == (lo + hi) \div 2
         IN  fill_s(fill_s(s, lo, mid), mid, hi)

\* s[0] = P; for i in 1..t { s[i] = s[i - 1].wrapping_add(Q) }
\* s[0] left at zero instead of P
init_s_without_p(s) == fill_s(s, 1, Len(s))

init_s(s) == fill_s([s EXCEPT ![1] = p], 1, Len(s))

\* the locals of gen_key_table on entering the mixing loop
ks_start(key, rounds) ==
    [s |-> init_s(vec_of(zero, t(rounds))),
     l |-> pack_key(key, vec_of(zero, c(key)), 0, Len(key)),
     a |-> zero, b |-> zero, i |-> 0, j |-> 0]

\* the slice index checks of s[i] and l[j]
mix_in_bounds(st) == st.i < Len(st.s) /\ st.j < Len(st.l)

\* one iteration of the mixing loop
mix_step(st) ==
    LET si == rotate_left(wrapping_add(wrapping_add(st.s[st.i + 1], st.a), st.b), 3 % w)
        lj == rotate_left(wrapping_add(wrapping_add(st.l[st.j + 1], si), st.b),
                          rem(wrapping_add(si, st.b), w))
    IN  [s |-> [st.s EXCEPT ![st.i + 1] = si],
         l |-> [st.l EXCEPT ![st.j + 1] = lj],
         a |-> si, b |-> lj,
         i |-> (st.i + 1) % Len(st.s),
         j |-> (st.j + 1) % Len(st.l)]

\* for _ in 0..(3 * t.max(c))
\* the iteration count taken from t alone
mix_count_t_only(key, rounds) == 3 * t(rounds)

mix_count(key, rounds) == 3 * Max(t(rounds), c(key))

RECURSIVE mix(_, _)
\* count iterations of the mixing loop (the first count / 2 of them, then the rest);
\* an iteration whose index check fails panics and runs no further
mix(st, count) ==
    IF count = 0 \/ ~mix_in_bounds(st) THEN st
    ELSE IF count = 1 THEN mix_step(st)
    ELSE mix(mix(st, count \div 2), count - count \div 2)

\* gen_key_table::<W>(key, rounds): the table s, or a panic
gen_key_table(key, rounds) ==
    IF ~key_len_ok(key)
    THEN panicked("key should be 0 to 255 bytes long")
    ELSE IF ~pack_in_bounds(key, c(key))
    THEN panicked("index out of bounds")
    ELSE LET st == mix(ks_start(key, rounds), mix_count(key, rounds))
         IN  IF mix_in_bounds(st) THEN returned(st.s) ELSE panicked("index out of bounds")

(***************************************************************************)
(* Block transforms                                                        *)
(***************************************************************************)
\* one round of encode_block: a is updated first, b then uses the updated a
\* the second half of the round computed from the a of before the round
encode_round_stale_a(ab, key_table, i) ==
    LET a == wrapping_add(rotate_left(bitxor(ab[1], ab[2]), rem(ab[2], w)), key_table[2 * i + 1])
        b == wrapping_add(rotate_left(bitxor(ab[2], ab[1]), rem(ab[1], w)), key_table[2 * i + 2])
    IN  <<a, b>>

encode_round(ab, key_table, i) ==
    LET a == wrapping_add(rotate_left(bitxor(ab[1], ab[2]), rem(ab[2], w)),
                          key_table[2 * i + 1])
        b == wrapping_add(rotate_left(bitxor(ab[2], a), rem(a, w)),
                          key_table[2 * i + 2])
    IN  <<a, b>>

RECURSIVE encode_rounds(_, _, _, _)
\* for i in 1..=rounds (the test on Len makes TLC evaluate a round before the next starts)
encode_rounds(ab, key_table, i, rounds) ==
    IF i > rounds \/ Len(ab) # 2 THEN ab
    ELSE encode_rounds(encode_round(ab, key_table, i), key_table, i + 1, rounds)

encode_block(plaintext, key_table) ==
    LET a == wrapping_add(plaintext[1], key_table[1])
        b == wrapping_add(plaintext[2], key_table[2])
        rounds == Len(key_table) \div 2 - 1
    IN  encode_rounds(<<a, b>>, key_table, 1, rounds)

\* one round of decode_block: b is recovered first, a then uses the recovered b
decode_round(ab, key_table, i) ==
    LET b == bitxor(rotate_right(wrapping_sub(ab[2], key_table[2 * i + 2]), rem(ab[1], w)),
                    ab[1])
        a == bitxor(rotate_right(wrapping_sub(ab[1], key_table[2 * i + 1]), rem(b, w)),
                    b)
    IN  <<a, b>>

RECURSIVE decode_rounds(_, _, _)
\* for i in (1..=rounds).rev()
decode_rounds(ab, key_table, i) ==
    IF i < 1 \/ Len(ab) # 2 THEN ab
    ELSE decode_rounds(decode_round(ab, key_table, i), key_table, i - 1)

decode_block(ciphertext, key_table) ==
    LET rounds == Len(key_table) \div 2 - 1
        ab == decode_rounds(<<ciphertext[1], ciphertext[2]>>, key_table, rounds)
    IN  <<wrapping_sub(ab[1], key_table[1]), wrapping_sub(ab[2], key_table[2])>>

(***************************************************************************)
(* compute, encode, decode                                                 *)
(***************************************************************************)
\* let block_bytes = W::zero().count_zeros() as usize / 4
block_bytes == w \div 4

\* the message of compute's assert!, "input should be divisible into {} byte blocks"
block_message ==
    CASE block_bytes = 4 -> "input should be divisible into 4 byte blocks"
      [] block_bytes = 8 -> "input should be divisible into 8 byte blocks"
      [] block_bytes = 16 -> "input should be divisible into 16 byte blocks"

\* fun((i0, i1), &key_table), fun one of the two TranscodeFn pointers the code passes
call_fun(fun, pair, key_table) ==
    IF fun = "encode_block" THEN encode_block(pair, key_table)
                            ELSE decode_block(pair, key_table)

\* one chunk of chunks_exact: split, unpack, transform, repack
transcode_chunk(iblock, key_table, fun) ==
    LET first == SubSeq(iblock, 1, block_bytes \div 2)
        second == SubSeq(iblock, block_bytes \div 2 + 1, block_bytes)
        o == call_fun(fun, <<from_le_bytes(first), from_le_bytes(second)>>, key_table)
    IN  to_le_bytes(o[1]) \o to_le_bytes(o[2])

\* every output block computed from the first input block
RECURSIVE transcode_chunks_first(_, _, _, _)
transcode_chunks_first(input, key_table, fun, k) ==
    IF k * block_bytes > Len(input) THEN <<>>
    ELSE transcode_chunk(SubSeq(input, 1, block_bytes), key_table, fun)
         \o transcode_chunks_first(input, key_table, fun, k + 1)

RECURSIVE transcode_chunks(_, _, _, _)
\* for iblock in input.chunks_exact(block_bytes) { ...; output.extend(..) }
transcode_chunks(input, key_table, fun, k) ==
    IF k * block_bytes > Len(input) THEN <<>>
    ELSE transcode_chunk(SubSeq(input, (k - 1) * block_bytes + 1, k * block_bytes), key_table, fun)
         \o transcode_chunks(input, key_table, fun, k + 1)

\* the assert! left out: chunks_exact drops the bytes after the last whole block
compute_unchecked(input, key_table, fun) == returned(transcode_chunks(input, key_table, fun, 1))

\* compute(input, key_table, fun): the output bytes, or the panic of its assert!
compute(input, key_table, fun) ==
    IF Len(input) % block_bytes # 0
    THEN panicked(block_message)
    ELSE returned(transcode_chunks(input, key_table, fun, 1))

\* encode::<W>(key, plaintext): the key table is built (or panics) before compute runs
encode(key, plaintext) ==
    LET kt == gen_key_table(key, 12)
    IN  IF kt.kind = "panic" THEN kt ELSE compute(plaintext, kt.value, "encode_block")

\* decode::<W>(key, ciphertext)
decode(key, ciphertext) ==
    LET kt == gen_key_table(key, 12)
    IN  IF kt.kind = "panic" THEN kt ELSE compute(ciphertext, kt.value, "decode_block")

(***************************************************************************)
(* Inputs the callers draw from                                            *)
(***************************************************************************)
\* the integer types with MagicConstants
Widths == {16, 32, 64}

\* the types with FromLeBytes and ToLeBytes, the only ones encode and decode accept
CodecWidths == {32}

MaxKeyLen == 2
MaxPad == 8
MaxKsKeyLen == 9
MaxKsRounds == 1
MaxBlockRounds == 1
MaxMsgLen == 24

\* the key k -> (mul * k + add) mod 256, k = 1 .. len
key_pattern(len, mul, add) == [k \in 1 .. len |-> (mul * k + add) % 256]

RECURSIVE SeqsUpTo(_, _)
SeqsUpTo(S, len) ==
    IF len = 0 THEN {<<>>}
    ELSE LET shorter == SeqsUpTo(S, len - 1)
         IN  shorter \cup {Append(x, y) : x \in {z \in shorter : Len(z) = len - 1}, y \in S}

\* the longest key gen_key_table accepts, and the shortest it rejects
LongKey == key_pattern(255, 37, 11)
TooLongKey == key_pattern(256, 37, 11)

\* the key 00 01 .. 0F of the tests
KeyA == key_pattern(16, 1, 255)

NoKs == [s |-> <<>>, l |-> <<>>, a |-> <<>>, b |-> <<>>, i |-> 0, j |-> 0]
NoUpd == [s |-> <<>>, l |-> <<>>]
NoRes == [kind |-> "none", message |-> "", value |-> <<>>]

(***************************************************************************)
(* SpecKS: one call of gen_key_table, the mixing loop one iteration at a   *)
(* time                                                                    *)
(***************************************************************************)
KsShortKeys ==
    {key_pattern(len, 37, 11) : len \in 0 .. MaxKsKeyLen}
        \cup {key_pattern(len, 0, 255) : len \in 0 .. MaxKsKeyLen}

\* (key, rounds) arguments: short keys with few rounds and the 12 rounds of encode/decode,
\* keys of 255 and 256 bytes, and the largest u8 rounds
KsCalls ==
    (KsShortKeys \X ((0 .. MaxKsRounds) \cup {12}))
        \cup ({LongKey, TooLongKey} \X {0, 12})
        \cup ({<<>>, LongKey} \X {255})

InitKS ==
    /\ W \in Widths
    /\ \E call \in KsCalls : ukey = call[1] /\ urounds = call[2]
    /\ pc = "call"
    /\ ks = NoKs /\ ks2 = NoKs /\ n = 0 /\ upd = NoUpd /\ res = NoRes
    /\ ukey2 = <<>> /\ msg = <<>> /\ blk = <<>> /\ tbl = <<>> /\ res2 = NoRes

\* entry of gen_key_table up to the mixing loop: the assert!, t, c, l packed, s filled
KsEnter ==
    /\ pc = "call"
    /\ IF ~key_len_ok(ukey)
       THEN /\ pc' = "panic"
            /\ res' = panicked("key should be 0 to 255 bytes long")
            /\ UNCHANGED <<ks, upd>>
       ELSE IF ~pack_in_bounds(ukey, c(ukey))
       THEN /\ pc' = "panic"
            /\ res' = panicked("index out of bounds")
            /\ UNCHANGED <<ks, upd>>
       ELSE /\ pc' = "mix"
            /\ ks' = ks_start(ukey, urounds)
            /\ upd' = [s |-> vec_of(0, t(urounds)), l |-> vec_of(0, c(ukey))]
            /\ res' = res
    /\ UNCHANGED <<W, ukey, ukey2, urounds, ks2, n, msg, blk, tbl, res2>>

\* one iteration of for _ in 0..(3 * t.max(c))
KsMix ==
    /\ pc = "mix"
    /\ n < mix_count(ukey, urounds)
    /\ IF mix_in_bounds(ks)
       THEN /\ ks' = mix_step(ks)
            /\ n' = n + 1
            /\ upd' = [s |-> [upd.s EXCEPT ![ks.i + 1] = @ + 1],
                       l |-> [upd.l EXCEPT ![ks.j + 1] = @ + 1]]
            /\ UNCHANGED <<pc, res>>
       ELSE /\ pc' = "panic"
            /\ res' = panicked("index out of bounds")
            /\ UNCHANGED <<ks, n, upd>>
    /\ UNCHANGED <<W, ukey, ukey2, urounds, ks2, msg, blk, tbl, res2>>

\* the loop is over: gen_key_table returns s
KsReturn ==
    /\ pc = "mix"
    /\ n >= mix_count(ukey, urounds)
    /\ pc' = "done"
    /\ res' = returned(ks.s)
    /\ UNCHANGED <<W, ukey, ukey2, urounds, ks, ks2, n, upd, msg, blk, tbl, res2>>

NextKS == KsEnter \/ KsMix \/ KsReturn

SpecKS == InitKS /\ [][NextKS]_vars

(***************************************************************************)
(* Properties of gen_key_table, checked under SpecKS                       *)
(***************************************************************************)
\* t and c as the cipher's definition gives them
KsT == 2 * urounds + 2
KsC == Max(1, (Len(ukey) * 8 + W - 1) \div W)

\* byte x (from 0) of the key, 0 past its end
KeyByte(x) == IF x < Len(ukey) THEN ukey[x + 1] ELSE 0

\* word k (from 0) of the key read little-endian, W \div 8 bytes per word
KeyWordLE(k) ==
    [m \in 1 .. W \div 16 |->
        KeyByte(k * (W \div 8) + 2 * (m - 1)) + 256 * KeyByte(k * (W \div 8) + 2 * (m - 1) + 1)]

\* C6: gen_key_table fails (the key-length failure, no table) exactly when the key is longer
\* than 255 bytes; for every key of 0 to 255 bytes it returns a table of 2 * rounds + 2 words.
C6_KeyLengthChecked ==
    /\ pc # "call" => ((pc = "panic") <=> (Len(ukey) > 255))
    /\ pc = "panic" =>
          /\ res.kind = "panic"
          /\ res.message = "key should be 0 to 255 bytes long"
          /\ res.value = <<>>
    /\ pc = "done" => (res.kind = "ok" /\ Len(res.value) = KsT)

\* a 256-byte key has been rejected
C6_Witness == pc = "panic" /\ Len(ukey) = 256 /\ res.kind = "panic"

\* C8: the mixing loop runs exactly 3 * max(t, c) iterations; iteration n works on S[n mod t]
\* and L[n mod c], with i < t and j < c throughout, and on return every slot of S and of L
\* has been updated at least 3 times.
C8_MixingLoop ==
    /\ pc = "mix" =>
          /\ n <= 3 * Max(KsT, KsC)
          /\ Len(ks.s) = KsT /\ Len(ks.l) = KsC
          /\ ks.i = n % KsT /\ ks.j = n % KsC
          /\ ks.i < KsT /\ ks.j < KsC
          /\ \A k \in 1 .. KsT : upd.s[k] = (n - k + KsT) \div KsT
          /\ \A k \in 1 .. KsC : upd.l[k] = (n - k + KsC) \div KsC
    /\ pc = "done" =>
          /\ n = 3 * Max(KsT, KsC)
          /\ \A k \in 1 .. KsT : upd.s[k] >= 3
          /\ \A k \in 1 .. KsC : upd.l[k] >= 3
    /\ pc = "panic" => Len(ukey) > 255

\* the loop has returned for a key with more L words than S words, and for the largest t
C8_Witness ==
    /\ pc = "done"
    /\ Len(ks.l) > Len(ks.s)
    /\ n = 3 * Len(ks.l)
    /\ \E k \in 1 .. Len(ks.s) : upd.s[k] > 3

\* C9: when the packing loop is over, L has c words, L[k] is the little-endian integer of key
\* bytes k*u .. k*u+u-1 (bytes past the end of the key count as 0), every index i/u used is
\* below c, and the empty key gives L = [0].
C9_KeyPacking ==
    /\ (pc = "mix" /\ n = 0) =>
          /\ Len(ks.l) = KsC
          /\ \A k \in 0 .. KsC - 1 : ks.l[k + 1] = KeyWordLE(k)
          /\ \A x \in 0 .. Len(ukey) - 1 : x \div (W \div 8) < KsC
          /\ Len(ukey) = 0 => ks.l = <<[m \in 1 .. W \div 16 |-> 0]>>
    /\ (pc # "call" /\ Len(ukey) <= 255) => pc # "panic"

\* a key that ends in the middle of a word has been packed
C9_Witness ==
    /\ pc = "mix" /\ n = 0
    /\ Len(ukey) % (W \div 8) # 0
    /\ Len(ukey) > W \div 8
    /\ ks.l[Len(ks.l)] # [m \in 1 .. W \div 16 |-> 0]

(***************************************************************************)
(* SpecBlock: encode_block on a word pair and a key table, then            *)
(* decode_block on its result with the same table                          *)
(***************************************************************************)
\* the word with every bit set
all_ones == word_of(65535, 65535, 65535, 65535)

\* words the tables are filled with, and words the pairs are made of
TableWords == {zero, from_small(1), all_ones}
BlockWords == {zero, from_small(1), all_ones, p}

\* every table of 2 * rounds + 2 words over TableWords for up to MaxBlockRounds rounds
BlockTables ==
    {tb \in SeqsUpTo(TableWords, 2 * MaxBlockRounds + 2) : Len(tb) >= 2 /\ Len(tb) % 2 = 0}

\* the caller holds a table of arbitrary words, or a key to build the table from
InitBlock ==
    /\ W \in Widths
    /\ \/ pc = "call" /\ tbl \in BlockTables /\ ukey = <<>>
       \/ pc = "key" /\ tbl = <<>> /\ ukey \in {<<>>, KeyA}
    /\ blk \in BlockWords \X BlockWords
    /\ res = NoRes /\ res2 = NoRes
    /\ ukey2 = <<>> /\ urounds = 12 /\ ks = NoKs /\ ks2 = NoKs /\ n = 0 /\ upd = NoUpd
    /\ msg = <<>>

\* the table is the one gen_key_table returns, as in encode and decode
BlockKeyTable ==
    /\ pc = "key"
    /\ tbl' = gen_key_table(ukey, urounds).value
    /\ pc' = "call"
    /\ UNCHANGED <<W, ukey, ukey2, urounds, ks, ks2, n, upd, msg, blk, res, res2>>

\* encode_block(blk, tbl)
EncodeBlock ==
    /\ pc = "call"
    /\ res' = returned(encode_block(blk, tbl))
    /\ pc' = "encoded"
    /\ UNCHANGED <<W, ukey, ukey2, urounds, ks, ks2, n, upd, msg, blk, tbl, res2>>

\* decode_block of the encoded pair
DecodeBlock ==
    /\ pc = "encoded"
    /\ res2' = returned(decode_block(res.value, tbl))
    /\ pc' = "decoded"
    /\ UNCHANGED <<W, ukey, ukey2, urounds, ks, ks2, n, upd, msg, blk, tbl, res>>

NextBlock == BlockKeyTable \/ EncodeBlock \/ DecodeBlock

SpecBlock == InitBlock /\ [][NextBlock]_vars

\* C1: decode_block(encode_block(p, k), k) = p for every word pair p and every table k of
\* 2 * rounds + 2 arbitrary words, also when the additions wrap and when a rotate amount is 0.
C1_BlockRoundTrip == pc = "decoded" => (res2.kind = "ok" /\ res2.value = blk)

\* a pair went through a round in which the first addition wrapped to zero and the
\* data-dependent rotate amount was 0, and came back
C1_Witness ==
    /\ pc = "decoded"
    /\ Len(tbl) >= 4
    /\ blk[1] # zero /\ wrapping_add(blk[1], tbl[1]) = zero
    /\ rem(wrapping_add(blk[2], tbl[2]), W) = 0
    /\ res.value # blk
    /\ res2.value = blk

(***************************************************************************)
(* Spec: a caller of encode and decode                                     *)
(***************************************************************************)
\* the bytes (mul * k + add) mod 256, k = 1 .. len: all zero, all FF, and 00 11 22 ..
Messages ==
    {key_pattern(len, 0, 0) : len \in 0 .. MaxMsgLen}
        \cup {key_pattern(len, 0, 255) : len \in 0 .. MaxMsgLen}
        \cup {key_pattern(len, 17, 239) : len \in 0 .. MaxMsgLen}

\* the keys of the tests, a short key, and the keys of 255 and 256 bytes
CodecKeys == {<<>>, KeyA, key_pattern(16, 0, 0), key_pattern(5, 37, 11), LongKey, TooLongKey}

\* the caller holds a key, a message and a place n where the message splits into two
\* messages of whole blocks (0 when it has a partial block)
Init ==
    /\ W \in CodecWidths
    /\ ukey \in CodecKeys
    /\ msg \in Messages
    /\ n \in IF Len(msg) % (W \div 4) = 0
             THEN {x \in 0 .. Len(msg) : x % (W \div 4) = 0}
             ELSE {0}
    /\ pc = "call"
    /\ res = NoRes /\ res2 = NoRes /\ blk = <<>>
    /\ ukey2 = <<>> /\ urounds = 12 /\ ks = NoKs /\ ks2 = NoKs /\ upd = NoUpd /\ tbl = <<>>

\* encode(ukey, msg)
Encode ==
    /\ pc = "call"
    /\ res' = encode(ukey, msg)
    /\ pc' = "encoded"
    /\ UNCHANGED <<W, ukey, ukey2, urounds, ks, ks2, n, upd, msg, blk, tbl, res2>>

\* decode(ukey, msg)
Decode ==
    /\ pc = "call"
    /\ res' = decode(ukey, msg)
    /\ pc' = "decoded"
    /\ UNCHANGED <<W, ukey, ukey2, urounds, ks, ks2, n, upd, msg, blk, tbl, res2>>

\* decode(ukey, c) of the ciphertext c encode returned
DecodeEncoded ==
    /\ pc = "encoded"
    /\ res.kind = "ok"
    /\ res2' = decode(ukey, res.value)
    /\ pc' = "roundtrip"
    /\ UNCHANGED <<W, ukey, ukey2, urounds, ks, ks2, n, upd, msg, blk, tbl, res>>

\* encode of the two parts of msg, each on its own
EncodeParts ==
    /\ pc = "encoded"
    /\ res.kind = "ok"
    /\ blk' = <<encode(ukey, SubSeq(msg, 1, n)), encode(ukey, SubSeq(msg, n + 1, Len(msg)))>>
    /\ pc' = "encoded_parts"
    /\ UNCHANGED <<W, ukey, ukey2, urounds, ks, ks2, n, upd, msg, tbl, res, res2>>

\* decode of the two parts of msg, each on its own
DecodeParts ==
    /\ pc = "decoded"
    /\ res.kind = "ok"
    /\ blk' = <<decode(ukey, SubSeq(msg, 1, n)), decode(ukey, SubSeq(msg, n + 1, Len(msg)))>>
    /\ pc' = "decoded_parts"
    /\ UNCHANGED <<W, ukey, ukey2, urounds, ks, ks2, n, upd, msg, tbl, res, res2>>

Next == Encode \/ Decode \/ DecodeEncoded \/ EncodeParts \/ DecodeParts

Spec == Init /\ [][Next]_vars

PlainA == <<0, 17, 34, 51, 68, 85, 102, 119>>
CipherA == <<45, 220, 20, 155, 207, 8, 139, 158>>
CipherZero == <<33, 165, 219, 238, 21, 75, 143, 109>>
DecodedA == <<150, 149, 13, 218, 101, 74, 61, 98>>

\* C3: at width 32 with 12 rounds, encode(00 01 .. 0F, 00 11 22 33 44 55 66 77) is
\* 2D DC 14 9B CF 08 8B 9E, encode(16 zero bytes, 8 zero bytes) is 21 A5 DB EE 15 4B 8F 6D and
\* decode(00 01 .. 0F, 00 11 22 33 44 55 66 77) is 96 95 0D DA 65 4A 3D 62.
C3_KnownVectors ==
    /\ (pc = "encoded" /\ ukey = KeyA /\ msg = PlainA) => res = returned(CipherA)
    /\ (pc = "encoded" /\ ukey = key_pattern(16, 0, 0) /\ msg = key_pattern(8, 0, 0)) =>
          res = returned(CipherZero)
    /\ (pc = "decoded" /\ ukey = KeyA /\ msg = PlainA) => res = returned(DecodedA)

\* the first vector has been encoded
C3_Witness == pc = "encoded" /\ W = 32 /\ ukey = KeyA /\ msg = PlainA /\ res.value = CipherA

\* C4: encode(k, m1 ++ m2) = encode(k, m1) ++ encode(k, m2) for messages of whole blocks, and
\* the same for decode.
C4_BlockIndependence ==
    pc \in {"encoded_parts", "decoded_parts"} =>
        /\ blk[1].kind = "ok" /\ blk[2].kind = "ok"
        /\ res.value = blk[1].value \o blk[2].value

\* a message of two different blocks was encoded whole and in two parts
C4_Witness ==
    /\ pc = "encoded_parts"
    /\ n = W \div 4 /\ Len(msg) = 2 * n
    /\ SubSeq(msg, 1, n) # SubSeq(msg, n + 1, 2 * n)
    /\ blk[1].value # blk[2].value
    /\ res.value = blk[1].value \o blk[2].value

\* C5 as stated: an input that is not a whole number of blocks makes encode and decode return
\* a typed InvalidInputLength failure to the caller.
C5_TypedFailure ==
    (pc \in {"encoded", "decoded"} /\ Len(msg) % (2 * (W \div 8)) # 0) =>
        (res.kind = "err" /\ res.message = "InvalidInputLength")

\* C5 amended: an input that is not a whole number of blocks makes encode and decode panic
\* (the assert! of compute, or the one of gen_key_table when the key is longer than 255
\* bytes); no output is returned.
C5_PanicsOnPartialBlock ==
    (pc \in {"encoded", "decoded"} /\ Len(msg) % (2 * (W \div 8)) # 0) =>
        /\ res.kind = "panic"
        /\ res.value = <<>>
        /\ (Len(ukey) <= 255 /\ W = 32) =>
              res.message = "input should be divisible into 8 byte blocks"

\* decode was called with one block and one byte more
C5_Witness ==
    /\ pc = "decoded"
    /\ Len(msg) = 2 * (W \div 8) + 1
    /\ Len(ukey) <= 255
    /\ res.kind = "panic"

(***************************************************************************)
(* SpecRel: gen_key_table called on a key and then on a related key, with  *)
(* the same rounds                                                         *)
(***************************************************************************)
\* key with bit b of byte i (from 1) flipped
FlipBit(key, i, b) ==
    [key EXCEPT ![i] = IF (@ \div (2 ^ b)) % 2 = 0 THEN @ + 2 ^ b ELSE @ - 2 ^ b]

\* a 4-byte key whose table for u16 and 0 rounds survives a flip of bit 4 of its last byte
KeyB == <<105, 244, 152, 37>>

\* every key of up to MaxKeyLen bytes over four byte values, and two longer keys
RelKeys == SeqsUpTo({0, 1, 128, 255}, MaxKeyLen) \cup {KeyA, KeyB}

\* the keys one bit away from key, and key followed by 1 .. MaxPad zero bytes
RelatedKeys(key) ==
    {FlipBit(key, i, b) : i \in 1 .. Len(key), b \in 0 .. 7}
        \cup {key \o key_pattern(z, 0, 0) : z \in 1 .. MaxPad}

InitRel ==
    /\ W \in Widths
    /\ urounds \in {0, 1, 12}
    /\ ukey \in RelKeys
    /\ ukey2 \in RelatedKeys(ukey)
    /\ pc = "call"
    /\ ks = NoKs /\ ks2 = NoKs /\ res = NoRes /\ res2 = NoRes
    /\ n = 0 /\ upd = NoUpd /\ msg = <<>> /\ blk = <<>> /\ tbl = <<>>

\* gen_key_table(ukey, urounds); ks keeps its locals as the mixing loop starts
RelFirst ==
    /\ pc = "call"
    /\ ks' = IF key_len_ok(ukey) THEN ks_start(ukey, urounds) ELSE ks
    /\ res' = gen_key_table(ukey, urounds)
    /\ pc' = "first"
    /\ UNCHANGED <<W, ukey, ukey2, urounds, ks2, n, upd, msg, blk, tbl, res2>>

\* gen_key_table(ukey2, urounds); ks2 keeps its locals as the mixing loop starts
RelSecond ==
    /\ pc = "first"
    /\ ks2' = IF key_len_ok(ukey2) THEN ks_start(ukey2, urounds) ELSE ks2
    /\ res2' = gen_key_table(ukey2, urounds)
    /\ pc' = "both"
    /\ UNCHANGED <<W, ukey, ukey2, urounds, ks, n, upd, msg, blk, tbl, res>>

NextRel == RelFirst \/ RelSecond

SpecRel == InitRel /\ [][NextRel]_vars

\* k2 is k1 with exactly one bit flipped
IsBitFlip(k1, k2) ==
    /\ Len(k1) = Len(k2)
    /\ \E i \in 1 .. Len(k1) :
          /\ \A x \in 1 .. Len(k1) : x # i => k1[x] = k2[x]
          /\ \E b \in 0 .. 7 :
                \/ (k1[i] \div (2 ^ b)) % 2 = 0 /\ k2[i] = k1[i] + 2 ^ b
                \/ (k1[i] \div (2 ^ b)) % 2 = 1 /\ k2[i] = k1[i] - 2 ^ b

\* k2 is k1 followed by zero bytes, and both fill the same number of words
IsZeroPadded(k1, k2) ==
    /\ Len(k2) > Len(k1)
    /\ \A x \in 1 .. Len(k2) : k2[x] = (IF x <= Len(k1) THEN k1[x] ELSE 0)
    /\ Max(1, (Len(k2) + W \div 8 - 1) \div (W \div 8))
          = Max(1, (Len(k1) + W \div 8 - 1) \div (W \div 8))

C10_ZeroPaddedKeySameTable ==
    (pc = "both" /\ IsZeroPadded(ukey, ukey2)) =>
        /\ res.kind = "ok" /\ res2.kind = "ok"
        /\ res.value = res2.value

\* the empty key and the key of u zero bytes have both been scheduled
C10_Witness ==
    /\ pc = "both"
    /\ ukey = <<>> /\ Len(ukey2) = W \div 8
    /\ IsZeroPadded(ukey, ukey2)
    /\ Len(res.value) = 2 * urounds + 2
    /\ res.value = res2.value

====
